---- MODULE Spec2Model ----
(***************************************************************************)
(* Client-side model-generation flow of the "3D Model Magic" front-end:    *)
(* validation, payload construction, dispatch to the generation backend    *)
(* and fallback to the placeholder asset.  The repository carries two      *)
(* builds of the front-end, src/index.js and src/unnamed/part_000; the     *)
(* variable build says which one is running.                               *)
(*                                                                         *)
(* The handlers are checked in groups that share only the error message    *)
(* and the result slot: Spec is the generation flow (form, gallery,        *)
(* download button), SpecAuth the identity handlers and the plan lookup,   *)
(* both from the state after construction; SpecCall, SpecPay and SpecToken *)
(* exercise generateModel, payForModel and getCsrfToken from every state   *)
(* and argument of their contracts; SpecDownload follows a download to the *)
(* end of the purchase it starts, SpecLive is Spec with every exchange     *)
(* answered, and SpecServer is the Express backend of src/index.js.        *)
(*                                                                         *)
(* Numbers are held in tenths (0.4 is 4, 100 is 1000).  Text that the code *)
(* trims or escapes is a sequence of one-character strings.                *)
(***************************************************************************)
EXTENDS Integers, Sequences, FiniteSets, TLC

VARIABLES
  build,      \* which front-end runs: "index" (src/index.js) or "part000"
  user,       \* uid of the signed-in user, or "null"
  userPlan,   \* "free", "basic" or "pro"
  modelUrl,   \* the current result slot, NoUrl when empty
  error,      \* the inline error message
  isLoading,  \* the loading flag
  gen,        \* the generateModel call that is suspended at an await: pc is
              \* "token" (getCsrfToken), "post" (the request to the backend),
              \* "pay" (payForModel) or "idle" (no call is suspended)
  last,       \* the handler or continuation that ran last and what it did (kept:
              \* generateModel left the result slot, and before its first await
              \* the loading flag, as they were and sent no request)
  args,       \* the argument object of a direct call (SpecCall)
  showSignIn,       \* the sign-in modal is open
  showStripeModal,  \* the payment modal is open
  pays,       \* the payForModel calls that are suspended at an await
  look,       \* how many plan lookups wait for their token (tok) and for the
              \* answer of the plan endpoint (get)
  srv         \* the request the Express backend of src/index.js is handling,
              \* the call it made to the service behind it and its response

vars == <<build, user, userPlan, modelUrl, error, isLoading, gen, last, args,
          showSignIn, showStripeModal, pays, look, srv>>

\* the variables of the front-end, which the backend handlers leave alone
client == <<build, user, userPlan, modelUrl, error, isLoading, gen, last, args,
            showSignIn, showStripeModal, pays, look>>

\* the variables that generateModel and the gallery leave alone
session == <<user, userPlan, showSignIn, showStripeModal, pays, look>>

\* in-flight checkout calls and plan lookups the model follows at a time
MaxCheckouts == 1
MaxLookups   == 1

Builds == {"index", "part000"}

(***************************************************************************)
(* JavaScript values that reach a numeric or truthiness test.              *)
(***************************************************************************)
Undef  == [k |-> "undef", s |-> "", n |-> 0]
Null   == [k |-> "null",  s |-> "", n |-> 0]
NaN    == [k |-> "nan",   s |-> "", n |-> 0]
Inf    == [k |-> "inf",   s |-> "", n |-> 0]
Str(t) == [k |-> "str",   s |-> t,  n |-> 0]
Num(i) == [k |-> "num",   s |-> "", n |-> i]
Obj(t) == [k |-> "obj",   s |-> t,  n |-> 0]

\* Number("...") for the strings used below, in tenths.
StringToNumber(t) ==
  CASE t = ""         -> Num(0)
    [] t = "0"        -> Num(0)
    [] t = "-5"       -> Num(-50)
    [] t = "0.2"      -> Num(2)
    [] t = "0.4"      -> Num(4)
    [] t = "10"       -> Num(100)
    [] t = "20"       -> Num(200)
    [] t = "50"       -> Num(500)
    [] t = "100"      -> Num(1000)
    [] t = "150"      -> Num(1500)
    [] t = "Infinity" -> Inf
    [] OTHER          -> NaN

\* Number(v)
ToNumber(v) ==
  CASE v.k = "undef" -> NaN
    [] v.k = "null"  -> Num(0)
    [] v.k = "str"   -> StringToNumber(v.s)
    [] v.k = "obj"   -> NaN
    [] OTHER         -> v

\* !!v
Truthy(v) ==
  CASE v.k = "str" -> v.s # ""
    [] v.k = "num" -> v.n # 0
    [] v.k = "inf" -> TRUE
    [] v.k = "obj" -> TRUE
    [] OTHER       -> FALSE

\* a < b on the numeric conversions; any comparison with NaN is false
NumLt(x, y) ==
  CASE x.k = "nan" \/ y.k = "nan" -> FALSE
    [] x.k = "inf"                -> FALSE
    [] y.k = "inf"                -> TRUE
    [] OTHER                      -> x.n < y.n

JsLt(a, b) == NumLt(ToNumber(a), ToNumber(b))
JsGt(a, b) == NumLt(ToNumber(b), ToNumber(a))

\* Math.max(a, b) and Math.min(a, b)
MathMax(a, b) ==
  LET x == ToNumber(a)  y == ToNumber(b) IN
  IF x.k = "nan" \/ y.k = "nan" THEN NaN
  ELSE IF NumLt(x, y) THEN y ELSE x

MathMin(a, b) ==
  LET x == ToNumber(a)  y == ToNumber(b) IN
  IF x.k = "nan" \/ y.k = "nan" THEN NaN
  ELSE IF NumLt(y, x) THEN y ELSE x

\* validDimension with n >= 0 for n > 0
validDimension_NonNegative(v) ==
  IF ~Truthy(v) THEN FALSE
  ELSE LET n == ToNumber(v) IN n.k = "num" /\ n.n >= 0

\* validDimension(v)
validDimension(v) ==
  IF ~Truthy(v) THEN FALSE
  ELSE LET n == ToNumber(v) IN n.k = "num" /\ n.n > 0

\* one character through the replacement table of sanitizeInput
Entity(c) ==
  CASE c = "&"  -> <<"&", "a", "m", "p", ";">>
    [] c = "<"  -> <<"&", "l", "t", ";">>
    [] c = ">"  -> <<"&", "g", "t", ";">>
    [] c = "\"" -> <<"&", "q", "u", "o", "t", ";">>
    [] c = "'"  -> <<"&", "#", "x", "2", "7", ";">>
    [] OTHER    -> <<c>>

RECURSIVE sanitizeInput(_)
sanitizeInput(input) ==
  IF input = <<>> THEN <<>>
  ELSE Entity(Head(input)) \o sanitizeInput(Tail(input))

WhiteSpace == {" ", "\t", "\n"}

RECURSIVE TrimStart(_)
TrimStart(s) ==
  IF s # <<>> /\ Head(s) \in WhiteSpace THEN TrimStart(Tail(s)) ELSE s

RECURSIVE TrimEnd(_)
TrimEnd(s) ==
  IF s # <<>> /\ s[Len(s)] \in WhiteSpace
  THEN TrimEnd(SubSeq(s, 1, Len(s) - 1)) ELSE s

\* String.prototype.trim
Trim(s) == TrimEnd(TrimStart(s))

(***************************************************************************)
(* Texts and addresses of the code.                                        *)
(***************************************************************************)
PLACEHOLDER         == "https://modelviewer.dev/shared-assets/models/Astronaut.glb"
SHADER_BALL         == "https://modelviewer.dev/shared-assets/models/shader-ball.glb"
ROBOT               == "https://modelviewer.dev/shared-assets/models/RobotExpressive.glb"
NoUrl               == "null"

MsgMissingInput     == "Please provide a description or upload an image."
MsgInvalidDimension == "Enter valid width, height, and depth in millimeters (numbers > 0)."
MsgInvalidInfill    == "Infill must be between 0 and 100%."
MsgShellIndex       == "Shell thickness must be at least 0.4mm."
MsgShellPart        == "Enter valid shell thickness in millimeters (number > 0)."
MsgBackend          == "Failed to generate model. Using placeholder preview."
MsgNoUrl            == "No model URL returned. Showing placeholder."
MsgNetwork          == "Network error. Using placeholder preview."

\* the gallery entries, one per distinct asset address (the further entries
\* of the lists repeat these addresses)
EXAMPLE_MODELS(b) ==
  IF b = "index"
  THEN { [name |-> <<"D", "r", "o", "n", "e">>, url |-> PLACEHOLDER],
         [name |-> <<"S", "t", "a", "n", "d">>, url |-> SHADER_BALL],
         [name |-> <<"G", "r", "i", "p">>,      url |-> ROBOT] }
  ELSE { [name |-> <<"G", "e", "a", "r">>,      url |-> PLACEHOLDER],
         [name |-> <<"D", "r", "a", "g", "o", "n">>, url |-> ROBOT],
         [name |-> <<"S", "h", "e", "l", "f">>, url |-> SHADER_BALL] }

(***************************************************************************)
(* The form.  A field holds what its onChange handler stored for some      *)
(* value of the input element (a number input yields "" or a number).      *)
(***************************************************************************)
PromptTexts  == { <<>>, <<" ", "\t">>, <<" ", "<", "g">> }
DimInputs    == { "", "0", "-5", "10" }
InfillInputs == { "-5", "150" }
ShellInputs  == { "", "0.2", "10" }

\* setInfill(Math.max(0, Math.min(100, e.target.value)))
InfillOnChange(t) == MathMax(Num(0), MathMin(Num(1000), Str(t)))
\* setShellThickness(Math.max(0.4, e.target.value))
ShellOnChange(t) == MathMax(Num(4), Str(t))

FormStates(b) ==
  IF b = "index"
  THEN [ promptDef : {TRUE},
         prompt : PromptTexts,
         width  : {Str(t) : t \in DimInputs},
         height : {Str(t) : t \in DimInputs},
         depth  : {Str(t) : t \in DimInputs},
         infill : {Num(200)} \cup {InfillOnChange(t) : t \in InfillInputs},
         shellThickness : {Num(12)} \cup {ShellOnChange(t) : t \in ShellInputs},
         image  : {Null, Str("data:image")},
         download : {FALSE} ]
  ELSE [ promptDef : {TRUE},
         prompt : PromptTexts \cup {m.name : m \in EXAMPLE_MODELS(b)},
         width  : {Str(t) : t \in DimInputs},
         height : {Str(t) : t \in DimInputs},
         depth  : {Str(t) : t \in DimInputs},
         infill : {Str("10"), Str("20"), Str("50"), Str("100")},
         shellThickness : {Str(t) : t \in ShellInputs},
         image  : {Null, Obj("File")},
         download : {FALSE} ]

\* the argument object of a call that names only some properties
ArgsOnly(hasPrompt, p, dl) ==
  [ promptDef |-> hasPrompt, prompt |-> p,
    width |-> Undef, height |-> Undef, depth |-> Undef,
    infill |-> Undef, shellThickness |-> Undef, image |-> Undef,
    download |-> dl ]

(***************************************************************************)
(* generateModel up to its first await: validation, the loading flag, the  *)
(* request payload.  s is the component state the call sees.               *)
(***************************************************************************)
NoPayload ==
  [ prompt |-> <<>>, width |-> NaN, height |-> NaN, depth |-> NaN,
    infill |-> NaN, shellThickness |-> NaN, image |-> Undef,
    userId |-> "null", format |-> "" ]

\* the payload without its userId
BuildPayload(b, a) ==
  [ prompt |-> sanitizeInput(Trim(a.prompt)),
    width  |-> ToNumber(a.width),
    height |-> ToNumber(a.height),
    depth  |-> ToNumber(a.depth),
    infill |-> ToNumber(a.infill),
    shellThickness |->
      IF b = "index" THEN ToNumber(a.shellThickness)
      ELSE IF Truthy(ToNumber(a.shellThickness))
           THEN ToNumber(a.shellThickness) ELSE Num(10),
    image  |-> a.image,
    userId |-> "null",
    format |-> IF b = "index" THEN (IF a.download THEN "stl" ELSE "glb") ELSE "" ]

\* rule 1 with || for &&
MissingInput_Either(a) ==
  sanitizeInput(Trim(a.prompt)) = <<>> \/ ~Truthy(a.image)

\* !sanitizedPrompt && !image
MissingInput(a) ==
  sanitizeInput(Trim(a.prompt)) = <<>> /\ ~Truthy(a.image)

\* !validDimension(width) || !validDimension(height) || !validDimension(depth)
BadDimensions(a) ==
  ~validDimension(a.width) \/ ~validDimension(a.height) \/ ~validDimension(a.depth)

\* rule 3 without its upper limit
BadInfill_NoUpper(b, a) ==
  b = "index" /\ JsLt(a.infill, Num(0))

\* infill < 0 || infill > 100 (src/index.js; part_000 has no such test)
BadInfill(b, a) ==
  b = "index" /\ (JsLt(a.infill, Num(0)) \/ JsGt(a.infill, Num(1000)))

\* shellThickness < 0.4 (src/index.js);
\* !validDimension(shellThickness) && shellThickness (part_000)
BadShell(b, a) ==
  IF b = "index" THEN JsLt(a.shellThickness, Num(4))
  ELSE ~validDimension(a.shellThickness) /\ Truthy(a.shellThickness)

\* the validation with the infill rule tested before the dimension rule
Validate_InfillFirst(b, a) ==
  IF ~a.promptDef THEN "TypeError"
  ELSE IF MissingInput(a) THEN "MissingInput"
  ELSE IF BadInfill(b, a) THEN "InvalidInfill"
  ELSE IF BadDimensions(a) THEN "InvalidDimension"
  ELSE IF BadShell(b, a) THEN "InvalidShellThickness"
  ELSE "ok"

\* the validation of generateModel: the failure it reports, or "ok";
\* prompt.trim() throws when no prompt is passed
Validate(b, a) ==
  IF ~a.promptDef THEN "TypeError"
  ELSE IF MissingInput(a) THEN "MissingInput"
  ELSE IF BadDimensions(a) THEN "InvalidDimension"
  ELSE IF BadInfill(b, a) THEN "InvalidInfill"
  ELSE IF BadShell(b, a) THEN "InvalidShellThickness"
  ELSE "ok"

ValidationMessage(b, v) ==
  CASE v = "MissingInput"          -> MsgMissingInput
    [] v = "InvalidDimension"      -> MsgInvalidDimension
    [] v = "InvalidInfill"         -> MsgInvalidInfill
    [] v = "InvalidShellThickness" -> IF b = "index" THEN MsgShellIndex ELSE MsgShellPart
    [] OTHER                       -> ""

ValidationFailures ==
  {"MissingInput", "InvalidDimension", "InvalidInfill", "InvalidShellThickness"}

\* what generateModel derives from its arguments alone
Checked(b, a) ==
  LET v == Validate(b, a) IN
  [ verdict |-> v,
    payload |-> IF v = "ok" THEN BuildPayload(b, a) ELSE NoPayload,
    download |-> a.download ]

\* generateModelSync with the loading flag and the result slot set before
\* the validation
generateModelSync_ClearsFirst(b, c, s) ==
  IF c.verdict = "ok"
  THEN [ verdict |-> "ok", error |-> "", isLoading |-> TRUE, modelUrl |-> NoUrl,
         tokenFetches |-> 1, payload |-> [c.payload EXCEPT !.userId = s.user] ]
  ELSE [ verdict |-> c.verdict, error |-> ValidationMessage(b, c.verdict),
         isLoading |-> TRUE, modelUrl |-> NoUrl,
         tokenFetches |-> 0, payload |-> NoPayload ]

\* the writes of the call: c is Checked(b, a), s the component state
generateModelSync(b, c, s) ==
  IF c.verdict = "ok"
  THEN [ verdict |-> "ok", error |-> "", isLoading |-> TRUE, modelUrl |-> NoUrl,
         tokenFetches |-> 1, payload |-> [c.payload EXCEPT !.userId = s.user] ]
  ELSE [ verdict |-> c.verdict, error |-> ValidationMessage(b, c.verdict),
         isLoading |-> s.isLoading, modelUrl |-> s.modelUrl,
         tokenFetches |-> 0, payload |-> NoPayload ]

\* the calls the Generate button can make: Checked of every state of the form
FormCallsIndex == {Checked("index", a) : a \in FormStates("index")}
FormCallsPart  == {Checked("part000", a) : a \in FormStates("part000")}
FormCalls(b)   == IF b = "index" THEN FormCallsIndex ELSE FormCallsPart

(***************************************************************************)
(* What the two network exchanges of generateModel can answer.             *)
(***************************************************************************)
BodyErrors    == {Undef, Str("Quota exceeded")}
BodyModelUrls == {Undef, Str(""), Str("https://x/y.glb")}

NoResponse == [kind |-> "none", ok |-> FALSE, json |-> "invalid",
               error |-> Undef, modelUrl |-> Undef]

Responses ==
  { [kind |-> "throw", ok |-> FALSE, json |-> "invalid",
     error |-> Undef, modelUrl |-> Undef] }
  \cup [kind : {"http"}, ok : {TRUE}, json : {"invalid", "null"},
        error : {Undef}, modelUrl : {Undef}]
  \cup [kind : {"http"}, ok : {TRUE}, json : {"object"},
        error : BodyErrors, modelUrl : BodyModelUrls]
  \cup [kind : {"http"}, ok : {FALSE}, json : {"invalid"},
        error : {Undef}, modelUrl : {Undef}]
  \cup [kind : {"http"}, ok : {FALSE}, json : {"object"},
        error : {Str("Quota exceeded")}, modelUrl : {Undef, Str("https://x/y.glb")}]

(***************************************************************************)
(* generateModel from the answer of the backend to its end.  g is the      *)
(* suspended call, r the answer, s the component state.  msg is the text   *)
(* handed to setError, "" when none is.                                    *)
(***************************************************************************)
\* Fallback that sends the request again after a network error
Fallback_Retry(outcome, text) ==
  [ outcome |-> outcome, error |-> text, msg |-> text, modelUrl |-> PLACEHOLDER,
    isLoading |-> FALSE, pay |-> FALSE, retry |-> (outcome = "network") ]

\* Fallback without the placeholder when the answer has no model URL
Fallback_NoPlaceholder(outcome, text) ==
  [ outcome |-> outcome, error |-> text, msg |-> text,
    modelUrl |-> IF outcome = "missingResult" THEN NoUrl ELSE PLACEHOLDER,
    isLoading |-> FALSE, pay |-> FALSE, retry |-> FALSE ]

\* the three fallbacks: message, placeholder, loading flag off
Fallback(outcome, text) ==
  [ outcome |-> outcome, error |-> text, msg |-> text, modelUrl |-> PLACEHOLDER,
    isLoading |-> FALSE, pay |-> FALSE, retry |-> FALSE ]

\* the error-field branch without its setIsLoading(false)
OnErrorField_StaysLoading(r, s) ==
  [ outcome |-> "errorField", error |-> r.error.s, msg |-> r.error.s,
    modelUrl |-> s.modelUrl, isLoading |-> TRUE, pay |-> FALSE, retry |-> FALSE ]

\* if (data?.error)
OnErrorField(r, s) ==
  [ outcome |-> "errorField", error |-> r.error.s, msg |-> r.error.s,
    modelUrl |-> s.modelUrl, isLoading |-> FALSE, pay |-> FALSE, retry |-> FALSE ]

\* the purchase started after every download, whatever the plan
PaysAfter_AnyPlan(b, g) == b = "index" /\ g.download

\* a download by a user who is not on the pro plan goes on to payForModel
\* (src/index.js); g.plan is the plan the call was made under
PaysAfter(b, g) == b = "index" /\ g.download /\ g.plan # "pro"

\* OnSuccess reading data.url, which the answer does not carry
OnSuccess_WrongField(b, g, r, s) ==
  [ outcome |-> "success", error |-> s.error, msg |-> "",
    modelUrl |-> NoUrl, isLoading |-> PaysAfter(b, g),
    pay |-> PaysAfter(b, g), retry |-> FALSE ]

\* if (data?.modelUrl): the loading flag stays on while payForModel is awaited
OnSuccess(b, g, r, s) ==
  [ outcome |-> "success", error |-> s.error, msg |-> "",
    modelUrl |-> r.modelUrl.s, isLoading |-> PaysAfter(b, g),
    pay |-> PaysAfter(b, g), retry |-> FALSE ]

\* generateModelComplete reading the body before the status
generateModelComplete_BodyFirst(b, g, r, s) ==
  IF r.kind = "throw" THEN Fallback("network", MsgNetwork)
  ELSE IF r.json = "invalid" THEN Fallback("network", MsgNetwork)
  ELSE IF r.json = "object" /\ Truthy(r.error) THEN OnErrorField(r, s)
  ELSE IF ~r.ok THEN Fallback("backend", MsgBackend)
  ELSE IF r.json = "object" /\ Truthy(r.modelUrl) THEN OnSuccess(b, g, r, s)
  ELSE Fallback("missingResult", MsgNoUrl)

generateModelComplete(b, g, r, s) ==
  IF r.kind = "throw" THEN Fallback("network", MsgNetwork)
  ELSE IF ~r.ok THEN Fallback("backend", MsgBackend)
  ELSE IF r.json = "invalid" THEN Fallback("network", MsgNetwork)
  ELSE IF r.json = "object" /\ Truthy(r.error) THEN OnErrorField(r, s)
  ELSE IF r.json = "object" /\ Truthy(r.modelUrl) THEN OnSuccess(b, g, r, s)
  ELSE Fallback("missingResult", MsgNoUrl)

(***************************************************************************)
(* getCsrfToken.  a is what the token endpoint answers.                    *)
(***************************************************************************)
TokenAnswers ==
  { [kind |-> "throw", json |-> "invalid", token |-> Undef] }
  \cup [kind : {"http"}, json : {"invalid", "null"}, token : {Undef}]
  \cup [kind : {"http"}, json : {"object"}, token : {Undef, Str("tok")}]

\* the fetch or the parse threw, or data is null: the catch block is taken
TokenFetchThrows(a) == a.kind = "throw" \/ a.json \in {"invalid", "null"}

\* getCsrfToken handing out a stale token when the fetch fails
getCsrfToken_Stale(a) ==
  IF TokenFetchThrows(a) THEN "tok"
  ELSE IF a.token = Undef THEN "undefined" ELSE a.token.s

\* return data.token; "" from the catch block.  An answer without a token
\* field gives undefined, which the header carries as the text "undefined".
getCsrfToken(a) ==
  IF TokenFetchThrows(a) THEN ""
  ELSE IF a.token = Undef THEN "undefined" ELSE a.token.s

\* the tokens a request can carry: the token of the answer, undefined when
\* the answer has no token field, "" when the fetch or the parse fails
TokenResults == {getCsrfToken(a) : a \in TokenAnswers}

(***************************************************************************)
(* payForModel.  A price identifier is a string, NoPrice when null.        *)
(***************************************************************************)
NoPrice       == "null"
PRICE_BASIC   == "price_1N9Z8x1234567890"
PRICE_PRO     == "price_1N9Z8y1234567890"
PRICE_ONETIME == "price_1N9Z8z1234567890"
PRICE_SUB     == "price_sub_monthly"
SKU           == "sku_42"

PLANS ==
  { [id |-> "free",  priceId |-> NoPrice],
    [id |-> "basic", priceId |-> PRICE_BASIC],
    [id |-> "pro",   priceId |-> PRICE_PRO] }

PriceIds == {NoPrice, "", PRICE_BASIC, PRICE_PRO, PRICE_ONETIME, PRICE_SUB, SKU}

\* !priceId
PriceFalsy(p) == p \in {NoPrice, ""}
\* priceId.startsWith("price_")
StartsWithPrice(p) == p \in {PRICE_BASIC, PRICE_PRO, PRICE_ONETIME, PRICE_SUB}
\* priceId.includes("sub")
IncludesSub(p) == p = PRICE_SUB

SENTINEL      == "subscription"
FREE_DOWNLOAD == "free-download"

MsgNoAction      == "This plan is included by default."
MsgNeedsModel    == "Generate a model first before purchasing."
MsgNeedsSignIn   == "Please sign in to subscribe or purchase."
MsgCheckoutFail  == "Failed to initiate checkout."
MsgCheckoutError == "Checkout error. Please try again."
MsgSignedOut     == "Signed out."
MsgAuth          == "auth/wrong-password"

NoCheckout == [priceId |-> NoPrice, modelUrl |-> NoUrl, userId |-> "null"]

\* the body of the checkout request
CheckoutBody(b, p, s) ==
  [ priceId  |-> IF b = "part000" /\ PriceFalsy(p) THEN FREE_DOWNLOAD ELSE p,
    modelUrl |-> IF s.modelUrl = NoUrl THEN SENTINEL ELSE s.modelUrl,
    userId   |-> s.user ]

\* NoActionNeeded for the free plan only
NoActionNeeded_FreeOnly(b, p, s) == PriceFalsy(p) /\ s.userPlan = "free"

\* the first rule: nothing to buy
NoActionNeeded(b, p, s) ==
  IF b = "index" THEN PriceFalsy(p)
  ELSE PriceFalsy(p) /\ s.userPlan # "pro"

\* the second rule: "generate a model first"
NeedsModel(b, p, s) ==
  IF b = "index"
  THEN StartsWithPrice(p) /\ s.modelUrl = NoUrl /\ ~IncludesSub(p)
  ELSE ~PriceFalsy(p) /\ s.modelUrl = NoUrl

\* the third rule: "sign in required"
NeedsSignIn(s) == s.user = "null"

PayVerdict(b, p, s) ==
  IF NoActionNeeded(b, p, s) THEN "NoAction"
  ELSE IF NeedsModel(b, p, s) THEN "NeedsModel"
  ELSE IF NeedsSignIn(s) THEN "NeedsSignIn"
  ELSE "proceed"

PayMessage(v) ==
  CASE v = "NoAction"    -> MsgNoAction
    [] v = "NeedsModel"  -> MsgNeedsModel
    [] v = "NeedsSignIn" -> MsgNeedsSignIn
    [] OTHER             -> ""

\* payForModelSync that opens the payment modal before the sign-in rule
payForModelSync_ModalFirst(b, p, s) ==
  LET v == PayVerdict(b, p, s) IN
  [ verdict |-> v, error |-> PayMessage(v),
    showSignIn |-> (s.showSignIn \/ v = "NeedsSignIn"),
    showStripeModal |-> (s.showStripeModal \/ v \in {"proceed", "NeedsSignIn"}),
    tokenFetches |-> IF v = "proceed" THEN 1 ELSE 0,
    body |-> IF v = "proceed" THEN CheckoutBody(b, p, s) ELSE NoCheckout ]

\* payForModel up to its first await: the writes of the call and the body of
\* the request it goes on to send
payForModelSync(b, p, s) ==
  LET v == PayVerdict(b, p, s) IN
  [ verdict |-> v, error |-> PayMessage(v),
    showSignIn |-> (s.showSignIn \/ v = "NeedsSignIn"),
    showStripeModal |-> (s.showStripeModal \/ v = "proceed"),
    tokenFetches |-> IF v = "proceed" THEN 1 ELSE 0,
    body |-> IF v = "proceed" THEN CheckoutBody(b, p, s) ELSE NoCheckout ]

\* what the checkout endpoint can answer
CheckoutResponses ==
  { [kind |-> "throw", ok |-> FALSE, json |-> "invalid", url |-> Undef] }
  \cup [kind : {"http"}, ok : {TRUE}, json : {"invalid", "null"}, url : {Undef}]
  \cup [kind : {"http"}, ok : {TRUE, FALSE}, json : {"object"},
        url : {Undef, Str(""), Str("https://checkout/s1")}]

\* payForModelComplete that sends the request again after a failure
payForModelComplete_Retry(b, r, s) ==
  IF r.kind = "throw" \/ r.json \in {"invalid", "null"}
  THEN [ outcome |-> "error", error |-> MsgCheckoutError, msg |-> MsgCheckoutError,
         showStripeModal |-> FALSE, retry |-> TRUE ]
  ELSE IF Truthy(r.url)
  THEN [ outcome |-> "redirected", error |-> s.error, msg |-> "",
         showStripeModal |-> (b = "index" /\ s.showStripeModal), retry |-> FALSE ]
  ELSE [ outcome |-> "failed", error |-> MsgCheckoutFail, msg |-> MsgCheckoutFail,
         showStripeModal |-> FALSE, retry |-> FALSE ]

\* payForModel from the answer of the checkout endpoint to its end.  The
\* status is not looked at.  part_000 closes the modal in a finally block.
payForModelComplete(b, r, s) ==
  IF r.kind = "throw" \/ r.json \in {"invalid", "null"}
  THEN [ outcome |-> "error", error |-> MsgCheckoutError, msg |-> MsgCheckoutError,
         showStripeModal |-> FALSE, retry |-> FALSE ]
  ELSE IF Truthy(r.url)
  THEN [ outcome |-> "redirected", error |-> s.error, msg |-> "",
         showStripeModal |-> (b = "index" /\ s.showStripeModal), retry |-> FALSE ]
  ELSE [ outcome |-> "failed", error |-> MsgCheckoutFail, msg |-> MsgCheckoutFail,
         showStripeModal |-> FALSE, retry |-> FALSE ]

(***************************************************************************)
(* fetchUserPlan and the continuation of the sign-in notification.         *)
(***************************************************************************)
PlanResponses ==
  { [kind |-> "throw", ok |-> FALSE, json |-> "invalid", plan |-> Undef] }
  \cup [kind : {"http"}, ok : {TRUE, FALSE}, json : {"invalid"}, plan : {Undef}]
  \cup [kind : {"http"}, ok : {TRUE}, json : {"null"}, plan : {Undef}]
  \cup [kind : {"http"}, ok : {TRUE}, json : {"object"},
        plan : {Undef, Str(""), Str("basic"), Str("pro")}]
  \cup [kind : {"http"}, ok : {FALSE}, json : {"object"},
        plan : {Undef, Str("pro")}]

\* return data.plan; "free" from the catch block
fetchUserPlan(r) ==
  IF r.kind = "throw" \/ r.json \in {"invalid", "null"} THEN Str("free")
  ELSE r.plan

\* setUserPlan(plan || "free")
PlanOrFree(v) == IF Truthy(v) THEN v.s ELSE "free"

(***************************************************************************)
(* The Express backend (src/index.js 1-117): POST /generate and            *)
(* POST /create-checkout-session.                                          *)
(***************************************************************************)
MsgPromptRequired == "Prompt is required"
MsgSloydFailed    == "Failed to generate model from AI service"
MsgSloydNoUrl     == "AI service did not return a model URL"
MsgSloydError     == "Error generating model"
MsgPriceRequired  == "Price ID is required"
MsgStripeError    == "Failed to create checkout session"

\* req.body and req.headers.origin of a request
NoReq == [prompt |-> Undef, priceId |-> Undef, modelId |-> Undef, origin |-> Undef]
GenerateRequests ==
  { [NoReq EXCEPT !.prompt = v] :
      v \in {Undef, Null, Str(""), Str(" "), Str("a gear")} }
CheckoutRequests ==
  [ prompt : {Undef},
    priceId : {Undef, Str("")}
                \cup {Str(q) : q \in {PRICE_BASIC, PRICE_PRO, PRICE_ONETIME,
                                       PRICE_SUB, SKU, FREE_DOWNLOAD}},
    modelId : {Undef, Str("m1")},
    origin : {Undef, Str("https://app")} ]

\* what the AI service can answer: the fetch throws, or an answer with a
\* status and a body that parses or not
SloydAnswers ==
  { [kind |-> "throw", ok |-> FALSE, json |-> "invalid", modelUrl |-> Undef] }
  \cup [kind : {"http"}, ok : {TRUE, FALSE}, json : {"invalid", "null"},
        modelUrl : {Undef}]
  \cup [kind : {"http"}, ok : {TRUE, FALSE}, json : {"object"},
        modelUrl : {Undef, Str(""), Str("https://x/y.stl")}]

\* what stripe.checkout.sessions.create can answer
StripeAnswers ==
  { [kind |-> "throw", url |-> Undef],
    [kind |-> "session", url |-> Null],
    [kind |-> "session", url |-> Str("https://checkout/s1")] }
NoAnswer == [kind |-> "none"]

\* a response: res.status(...).json(...)
NoBody == [error |-> "", modelUrl |-> Undef, url |-> Undef]
Respond(status, body) == [status |-> status, body |-> body]
RespondError(status, msg) == Respond(status, [NoBody EXCEPT !.error = msg])

\* the body of the request sent to the AI service
NoCall == [service |-> "none", prompt |-> Undef, output |-> "", price |-> Undef,
           mode |-> "", modelId |-> Undef, success_url |-> ""]
SloydCall(req) ==
  [NoCall EXCEPT !.service = "sloyd", !.prompt = req.prompt, !.output = "stl"]

\* the response to POST /generate that takes the status of the AI service
\* for granted
generateRespond_IgnoresStatus(a) ==
  IF a.kind = "throw" \/ a.json \in {"invalid", "null"}
  THEN RespondError(500, MsgSloydError)
  ELSE IF ~Truthy(a.modelUrl) THEN RespondError(500, MsgSloydNoUrl)
  ELSE Respond(200, [NoBody EXCEPT !.modelUrl = a.modelUrl])

\* the response to POST /generate once the AI service has answered.  A body
\* that does not parse, and a body null, end in the catch block.
generateRespond(a) ==
  IF a.kind = "throw" THEN RespondError(500, MsgSloydError)
  ELSE IF ~a.ok THEN RespondError(500, MsgSloydFailed)
  ELSE IF a.json \in {"invalid", "null"} THEN RespondError(500, MsgSloydError)
  ELSE IF ~Truthy(a.modelUrl) THEN RespondError(500, MsgSloydNoUrl)
  ELSE Respond(200, [NoBody EXCEPT !.modelUrl = a.modelUrl])

\* mode: priceId.includes("sub") ? "subscription" : "payment"
SessionMode(p) == IF IncludesSub(p) THEN "subscription" ELSE "payment"

\* the arguments of stripe.checkout.sessions.create
StripeCall(req) ==
  [NoCall EXCEPT !.service = "stripe", !.price = req.priceId,
                 !.mode = SessionMode(req.priceId.s),
                 !.modelId = IF Truthy(req.modelId) THEN req.modelId
                             ELSE Str("unknown"),
                 !.success_url = (IF req.origin = Undef THEN "undefined"
                                  ELSE req.origin.s) \o "/success"]

\* the response to POST /create-checkout-session once Stripe has answered
checkoutRespond(a) ==
  IF a.kind = "throw" THEN RespondError(500, MsgStripeError)
  ELSE Respond(200, [NoBody EXCEPT !.url = a.url])

\* no request is being handled
IdleSrv == [pc |-> "idle", route |-> "none", req |-> NoReq, calls |-> 0,
            call |-> NoCall, ans |-> NoAnswer, sent |-> 0,
            res |-> Respond(0, NoBody)]

(***************************************************************************)
(* State.                                                                  *)
(***************************************************************************)
\* what the payForModel of the render a download call was made in sees
NoSeen  == [modelUrl |-> NoUrl, user |-> "null"]
IdleGen == [pc |-> "idle", payload |-> NoPayload, download |-> FALSE,
            plan |-> "free", token |-> "", posts |-> 0, seen |-> NoSeen]
NoLast  == [op |-> "none", verdict |-> "none", kept |-> TRUE,
            resp |-> NoResponse, outcome |-> "none", msg |-> "",
            price |-> "null", token |-> "none", sent |-> "none"]
NoLook  == [tok |-> 0, get |-> 0]
NoArgs  == ArgsOnly(FALSE, <<>>, FALSE)

\* a call of payForModel that waits for an answer
Checkout(body) == [pc |-> "token", body |-> body, token |-> "", posts |-> 0,
                   from |-> "button"]

\* the call of payForModel that generateModel awaits after a download
GenCheckout(body) == [Checkout(body) EXCEPT !.from = "generate"]

View == [modelUrl |-> modelUrl, isLoading |-> isLoading, error |-> error,
         user |-> user, userPlan |-> userPlan,
         showSignIn |-> showSignIn, showStripeModal |-> showStripeModal]

Init ==
  /\ build \in Builds
  /\ user = "null"
  /\ userPlan = "free"
  /\ modelUrl = NoUrl
  /\ error = ""
  /\ isLoading = FALSE
  /\ gen = IdleGen
  /\ last = NoLast
  /\ args = NoArgs
  /\ showSignIn = FALSE
  /\ showStripeModal = FALSE
  /\ pays = {}
  /\ look = NoLook
  /\ srv = IdleSrv

\* the suspended call that generateModel leaves behind
Suspended(r, c) ==
  IF r.verdict = "ok"
  THEN [pc |-> "token", payload |-> r.payload, download |-> c.download,
        plan |-> userPlan, token |-> "", posts |-> 0,
        seen |-> IF c.download THEN [modelUrl |-> modelUrl, user |-> user]
                 ELSE NoSeen]
  ELSE gen

\* what a call of generateModel by op is remembered as
Called(op, r) ==
  [NoLast EXCEPT !.op = op, !.verdict = r.verdict, !.msg = r.error,
                 !.kept = (r.modelUrl = modelUrl /\ r.isLoading = isLoading
                           /\ r.tokenFetches = 0)]

\* one call of generateModel made by op, up to its first await
Invoke(op, c) ==
  LET r == generateModelSync(build, c, View) IN
  /\ error' = r.error
  /\ isLoading' = r.isLoading
  /\ modelUrl' = r.modelUrl
  /\ gen' = Suspended(r, c)
  /\ last' = Called(op, r)

\* a Generate button that stays enabled while a request is in flight
HandleGenerate_AlwaysEnabled ==
  /\ \E c \in FormCalls(build) : Invoke("generate", c)
  /\ UNCHANGED <<srv, build, session, args>>

\* the Generate button (disabled while loading)
HandleGenerate ==
  /\ ~isLoading
  /\ \E c \in FormCalls(build) : Invoke("generate", c)
  /\ UNCHANGED <<srv, build, session, args>>

\* the download button of src/index.js, rendered while a result is shown
DownloadClick ==
  /\ build = "index"
  /\ modelUrl # NoUrl
  /\ Invoke("download", Checked(build, ArgsOnly(FALSE, <<>>, TRUE)))
  /\ UNCHANGED <<srv, build, session, args>>

\* "Try This Model" of the gallery
TryThisModel ==
  /\ \E m \in EXAMPLE_MODELS(build) :
       IF build = "index"
       THEN LET c == Checked(build, ArgsOnly(TRUE, m.name, FALSE))
                r == generateModelSync(build, c, View) IN
            /\ error' = r.error
            /\ isLoading' = r.isLoading
            /\ gen' = Suspended(r, c)
            /\ last' = Called("gallery", r)
            /\ modelUrl' = m.url
       ELSE /\ modelUrl' = m.url
            /\ last' = [NoLast EXCEPT !.op = "gallery"]
            /\ UNCHANGED <<error, isLoading, gen>>
  /\ UNCHANGED <<srv, build, session, args>>

\* getCsrfToken answers; generateModel sends the POST to the backend
TokenResponse ==
  /\ gen.pc = "token"
  /\ \E a \in TokenAnswers :
       LET t == getCsrfToken(a) IN
       /\ gen' = [gen EXCEPT !.pc = "post", !.token = t, !.posts = @ + 1]
       /\ last' = [NoLast EXCEPT !.op = "token", !.token = t, !.sent = "generate",
                                 !.outcome = IF TokenFetchThrows(a) THEN "tokenFailed"
                                             ELSE "tokenAnswered"]
  /\ UNCHANGED <<srv, build, session, modelUrl, error, isLoading, args>>

\* the state payForModel reads when generateModel calls it: modelUrl, user
\* and userPlan are those of the render the call of generateModel was made in
Closure(g) ==
  [View EXCEPT !.modelUrl = g.seen.modelUrl, !.user = g.seen.user,
               !.userPlan = g.plan]

\* the backend answers, or the fetch fails; after a download that succeeded
\* generateModel calls payForModel and waits for it
PostResponse ==
  /\ gen.pc = "post"
  /\ \E r \in Responses :
       LET c == generateModelComplete(build, gen, r, View)
           p == payForModelSync(build, PRICE_ONETIME, Closure(gen))
           waits == c.pay /\ p.verdict = "proceed"
       IN
       /\ waits => Cardinality(pays) < MaxCheckouts
       /\ error' = IF c.pay THEN p.error ELSE c.error
       /\ modelUrl' = c.modelUrl
       /\ isLoading' = (c.isLoading /\ (c.pay => waits))
       /\ showSignIn' = IF c.pay THEN p.showSignIn ELSE showSignIn
       /\ showStripeModal' = IF c.pay THEN p.showStripeModal ELSE showStripeModal
       /\ pays' = IF waits THEN pays \cup {GenCheckout(p.body)} ELSE pays
       /\ last' = [NoLast EXCEPT !.op = "response", !.resp = r,
                                 !.outcome = c.outcome, !.msg = c.msg,
                                 !.kept = (c.modelUrl = modelUrl),
                                 !.price = IF c.pay THEN PRICE_ONETIME ELSE "null",
                                 !.verdict = IF c.pay THEN p.verdict ELSE "none"]
       /\ gen' = IF c.retry THEN [gen EXCEPT !.posts = @ + 1]
                 ELSE IF waits THEN [gen EXCEPT !.pc = "pay"]
                 ELSE IdleGen
  /\ UNCHANGED <<srv, build, user, userPlan, look, args>>

(***************************************************************************)
(* Payment: the buttons that call payForModel and its two continuations.   *)
(***************************************************************************)

\* one call of payForModel made by op with the price identifier p, up to its
\* first await
PayInvoke(op, p) ==
  LET r == payForModelSync(build, p, View) IN
  /\ r.verdict = "proceed" =>
       Cardinality(pays) < MaxCheckouts /\ Checkout(r.body) \notin pays
  /\ error' = r.error
  /\ showSignIn' = r.showSignIn
  /\ showStripeModal' = r.showStripeModal
  /\ pays' = IF r.verdict = "proceed" THEN pays \cup {Checkout(r.body)} ELSE pays
  /\ last' = [NoLast EXCEPT !.op = op, !.verdict = r.verdict, !.msg = r.error,
                            !.price = p]

\* a button of the plans section (disabled for the current plan)
PlanButton ==
  /\ \E plan \in PLANS : plan.id # userPlan /\ PayInvoke("plans", plan.priceId)
  /\ UNCHANGED <<srv, build, user, userPlan, modelUrl, isLoading, gen, args, look>>

\* "Pay & Download" / "Download Free" of src/unnamed/part_000, rendered while
\* a result is shown
PayAndDownload ==
  /\ build = "part000"
  /\ modelUrl # NoUrl
  /\ PayInvoke("payDownload", IF userPlan = "pro" THEN NoPrice ELSE PRICE_ONETIME)
  /\ UNCHANGED <<srv, build, user, userPlan, modelUrl, isLoading, gen, args, look>>

\* getCsrfToken answers; payForModel sends the POST to the checkout endpoint
PayTokenResponse ==
  /\ \E c \in pays, a \in TokenAnswers :
       LET t == getCsrfToken(a) IN
       /\ c.pc = "token"
       /\ pays' = (pays \ {c})
                    \cup {[c EXCEPT !.pc = "post", !.token = t, !.posts = @ + 1]}
       /\ last' = [NoLast EXCEPT !.op = "payToken", !.token = t,
                                 !.sent = "checkout", !.price = c.body.priceId,
                                 !.outcome = IF TokenFetchThrows(a) THEN "tokenFailed"
                                             ELSE "tokenAnswered"]
  /\ UNCHANGED <<srv, build, user, userPlan, modelUrl, error, isLoading, gen, args,
                 showSignIn, showStripeModal, look>>

\* the checkout endpoint answers, or the fetch fails.  On a redirect the
\* browser goes on to load the checkout page.  When generateModel awaits the
\* call, its finally block then clears the loading flag.
CheckoutResponse ==
  /\ \E c \in pays, r \in CheckoutResponses :
       LET d == payForModelComplete(build, r, View) IN
       /\ c.pc = "post"
       /\ error' = d.error
       /\ showStripeModal' = d.showStripeModal
       /\ pays' = IF d.retry
                  THEN (pays \ {c}) \cup {[c EXCEPT !.posts = @ + 1]}
                  ELSE pays \ {c}
       /\ last' = [NoLast EXCEPT !.op = "checkoutResponse", !.resp = r,
                                 !.outcome = d.outcome, !.msg = d.msg,
                                 !.price = c.body.priceId]
       /\ IF c.from = "generate" /\ ~d.retry
          THEN gen' = IdleGen /\ isLoading' = FALSE
          ELSE UNCHANGED <<gen, isLoading>>
  /\ UNCHANGED <<srv, build, user, userPlan, modelUrl, args, showSignIn, look>>

\* the Close button of the payment modal
CloseStripeModal ==
  /\ showStripeModal
  /\ showStripeModal' = FALSE
  /\ last' = [NoLast EXCEPT !.op = "closePayment"]
  /\ UNCHANGED <<srv, build, user, userPlan, modelUrl, error, isLoading, gen, args,
                 showSignIn, pays, look>>

(***************************************************************************)
(* Identity: the onAuthStateChanged handler, the sign-in form, signOut and *)
(* the plan lookup.                                                        *)
(***************************************************************************)
Uid == "u1"

\* onAuthStateChanged(u): setUser and the start of fetchUserPlan
SignedIn ==
  /\ look.tok + look.get < MaxLookups
  /\ user' = Uid
  /\ look' = [look EXCEPT !.tok = @ + 1]

\* onAuthStateChanged(null)
SignedOut ==
  /\ user' = "null"
  /\ userPlan' = "free"

\* the notification of a session that the identity provider restored or
\* created (sign-up)
AuthSignedIn ==
  /\ user = "null"
  /\ SignedIn
  /\ last' = [NoLast EXCEPT !.op = "signedIn"]
  /\ UNCHANGED <<srv, build, userPlan, modelUrl, error, isLoading, gen, args,
                 showSignIn, showStripeModal, pays>>

\* the notification of a session that ended elsewhere
AuthSignedOut ==
  /\ user # "null"
  /\ SignedOut
  /\ last' = [NoLast EXCEPT !.op = "signedOut"]
  /\ UNCHANGED <<srv, build, modelUrl, error, isLoading, gen, args,
                 showSignIn, showStripeModal, pays, look>>

\* the Sign In button of the header
OpenSignIn ==
  /\ user = "null"
  /\ ~showSignIn
  /\ showSignIn' = TRUE
  /\ last' = [NoLast EXCEPT !.op = "openSignIn"]
  /\ UNCHANGED <<srv, build, user, userPlan, modelUrl, error, isLoading, gen, args,
                 showStripeModal, pays, look>>

\* onClose of the sign-in modal
CloseSignIn ==
  /\ showSignIn
  /\ showSignIn' = FALSE
  /\ last' = [NoLast EXCEPT !.op = "closeSignIn"]
  /\ UNCHANGED <<srv, build, user, userPlan, modelUrl, error, isLoading, gen, args,
                 showStripeModal, pays, look>>

\* handleSignInSubmit, the identity provider accepting the password
SignInSubmit ==
  /\ showSignIn
  /\ user = "null"
  /\ SignedIn
  /\ showSignIn' = FALSE
  /\ last' = [NoLast EXCEPT !.op = "signIn"]
  /\ UNCHANGED <<srv, build, userPlan, modelUrl, error, isLoading, gen, args,
                 showStripeModal, pays>>

\* handleSignInSubmit, the identity provider refusing
SignInRefused ==
  /\ showSignIn
  /\ error' = MsgAuth
  /\ last' = [NoLast EXCEPT !.op = "signInRefused", !.msg = MsgAuth]
  /\ UNCHANGED <<srv, build, user, userPlan, modelUrl, isLoading, gen, args,
                 showSignIn, showStripeModal, pays, look>>

\* signOut of the header
SignOutClick ==
  /\ user # "null"
  /\ SignedOut
  /\ error' = MsgSignedOut
  /\ last' = [NoLast EXCEPT !.op = "signOut", !.msg = MsgSignedOut]
  /\ UNCHANGED <<srv, build, modelUrl, isLoading, gen, args,
                 showSignIn, showStripeModal, pays, look>>

\* getCsrfToken answers; fetchUserPlan sends the GET to the plan endpoint
PlanTokenResponse ==
  /\ look.tok > 0
  /\ look' = [tok |-> look.tok - 1, get |-> look.get + 1]
  /\ \E a \in TokenAnswers :
       last' = [NoLast EXCEPT !.op = "planToken", !.token = getCsrfToken(a),
                              !.sent = "plan",
                              !.outcome = IF TokenFetchThrows(a) THEN "tokenFailed"
                                          ELSE "tokenAnswered"]
  /\ UNCHANGED <<srv, build, user, userPlan, modelUrl, error, isLoading, gen, args,
                 showSignIn, showStripeModal, pays>>

\* the plan endpoint answers, or the fetch fails: setUserPlan(plan || "free")
PlanResponse ==
  /\ look.get > 0
  /\ look' = [look EXCEPT !.get = @ - 1]
  /\ \E r \in PlanResponses :
       /\ userPlan' = PlanOrFree(fetchUserPlan(r))
       /\ last' = [NoLast EXCEPT !.op = "planResponse", !.resp = r]
  /\ UNCHANGED <<srv, build, user, modelUrl, error, isLoading, gen, args,
                 showSignIn, showStripeModal, pays>>

(***************************************************************************)
(* The backend handlers.  A request is followed from its arrival to its    *)
(* response; the handlers share no state, so one request at a time shows   *)
(* all they do.                                                            *)
(***************************************************************************)
\* app.post("/generate"), up to the call of the AI service
GenerateRequest ==
  /\ srv.pc \in {"idle", "done"}
  /\ \E req \in GenerateRequests :
       srv' = IF ~Truthy(req.prompt)
              THEN [IdleSrv EXCEPT !.pc = "done", !.route = "generate",
                                   !.req = req, !.sent = 1,
                                   !.res = RespondError(400, MsgPromptRequired)]
              ELSE [IdleSrv EXCEPT !.pc = "sloyd", !.route = "generate",
                                   !.req = req, !.calls = 1,
                                   !.call = SloydCall(req)]
  /\ UNCHANGED client

\* the AI service answers, or the fetch fails
SloydResponse ==
  /\ srv.pc = "sloyd"
  /\ \E a \in SloydAnswers :
       srv' = [srv EXCEPT !.pc = "done", !.ans = a, !.sent = @ + 1,
                          !.res = generateRespond(a)]
  /\ UNCHANGED client

\* app.post("/create-checkout-session"), up to the call of Stripe
CheckoutSessionRequest ==
  /\ srv.pc \in {"idle", "done"}
  /\ \E req \in CheckoutRequests :
       srv' = IF ~Truthy(req.priceId)
              THEN [IdleSrv EXCEPT !.pc = "done", !.route = "checkout",
                                   !.req = req, !.sent = 1,
                                   !.res = RespondError(400, MsgPriceRequired)]
              ELSE [IdleSrv EXCEPT !.pc = "stripe", !.route = "checkout",
                                   !.req = req, !.calls = 1,
                                   !.call = StripeCall(req)]
  /\ UNCHANGED client

\* Stripe answers with a session, or throws
StripeResponse ==
  /\ srv.pc = "stripe"
  /\ \E a \in StripeAnswers :
       srv' = [srv EXCEPT !.pc = "done", !.sent = @ + 1,
                          !.ans = [kind |-> a.kind],
                          !.res = checkoutRespond(a)]
  /\ UNCHANGED client

Next ==
  \/ HandleGenerate
  \/ DownloadClick
  \/ TryThisModel
  \/ TokenResponse
  \/ PostResponse

Spec == Init /\ [][Next]_vars

\* Spec with the two exchanges of generateModel always answered: a fetch
\* either resolves or rejects, and both cases are answers of TokenResponse
\* and PostResponse
SpecLive == Spec /\ WF_vars(TokenResponse) /\ WF_vars(PostResponse)

(***************************************************************************)
(* generateModel as a function of its arguments: one call, made with any   *)
(* argument object (src/index.js) or any state of the form (part_000,      *)
(* whose generateModel takes no argument and reads the form).              *)
(***************************************************************************)
DimValues    == {Undef, Str(""), Str("abc"), Str("Infinity"), Str("0"), Str("-5"),
                 Str("10")}
InfillValues == {Undef, NaN, Num(-1), Num(0), Num(1000), Num(1001)}
ShellValues  == {Undef, Num(3), Num(4), Str("0.2"), Num(12)}

CallArgs(b) ==
  IF b = "index"
  THEN [ promptDef : {TRUE}, prompt : PromptTexts,
         width : DimValues, height : DimValues, depth : DimValues,
         infill : InfillValues, shellThickness : ShellValues,
         image : {Undef, Str("data:image")}, download : {FALSE} ]
       \cup {ArgsOnly(FALSE, <<>>, TRUE)}
  ELSE FormStates(b)

DirectCall ==
  /\ last.op = "none"
  /\ \E a \in CallArgs(build) :
       /\ args' = a
       /\ Invoke("direct", Checked(build, a))
  /\ UNCHANGED <<srv, build, session>>

NextCall == DirectCall

SpecCall == Init /\ [][NextCall]_vars

(***************************************************************************)
(* The identity handlers and the plan lookup, from the state after         *)
(* construction.  They share no variable with the generation flow but the  *)
(* error message.                                                          *)
(***************************************************************************)
NextAuth ==
  \/ AuthSignedIn
  \/ AuthSignedOut
  \/ OpenSignIn
  \/ CloseSignIn
  \/ SignInSubmit
  \/ SignInRefused
  \/ SignOutClick
  \/ PlanTokenResponse
  \/ PlanResponse

SpecAuth == Init /\ [][NextAuth]_vars

(***************************************************************************)
(* payForModel in every state of the component it can be called in: any    *)
(* identity, plan tier and result slot, with any price identifier          *)
(* (DirectPay) or from the buttons that call it.                           *)
(***************************************************************************)
InitPay ==
  /\ build \in Builds
  /\ user \in {"null", Uid}
  /\ userPlan \in {"free", "basic", "pro"}
  /\ modelUrl \in {NoUrl, PLACEHOLDER, "https://x/y.glb"}
  /\ error \in {"", MsgSignedOut}
                \cup (IF modelUrl = PLACEHOLDER THEN {MsgNetwork} ELSE {})
  /\ isLoading = FALSE
  /\ gen = IdleGen
  /\ last = NoLast
  /\ args = NoArgs
  /\ showSignIn \in BOOLEAN
  /\ showStripeModal = FALSE
  /\ pays = {}
  /\ look = NoLook
  /\ srv = IdleSrv

DirectPay ==
  /\ last.op = "none"
  /\ \E p \in PriceIds : PayInvoke("directPay", p)
  /\ UNCHANGED <<srv, build, user, userPlan, modelUrl, isLoading, gen, args, look>>

NextPay ==
  \/ DirectPay
  \/ PlanButton
  \/ PayAndDownload
  \/ PayTokenResponse
  \/ CheckoutResponse
  \/ CloseStripeModal

SpecPay == InitPay /\ [][NextPay]_vars


(***************************************************************************)
(* The three requests that carry a token, from every state in which their  *)
(* callers wait for getCsrfToken: a generateModel call made from the form, *)
(* a payForModel call made from a plan button with a result shown, and the *)
(* plan lookup of a sign-in, after which the user may have signed out and  *)
(* the payment modal may have been closed.                                 *)
(***************************************************************************)
\* the form with a prompt and the three dimensions typed in, the infill left
\* as it was, and any shell thickness
FilledForms(b) ==
  { a \in FormStates(b) :
      /\ a.prompt = <<" ", "<", "g">> /\ a.image = Null
      /\ a.width = Str("10") /\ a.height = Str("10") /\ a.depth = Str("10")
      /\ a.infill \in {Num(200), Str("20")} }

GenWaiting(b, u, plan) ==
  { [pc |-> "token", payload |-> [c.payload EXCEPT !.userId = u],
     download |-> c.download, plan |-> plan, token |-> "", posts |-> 0,
     seen |-> NoSeen] :
      c \in {d \in {Checked(b, a) : a \in FilledForms(b)} : d.verdict = "ok"} }

PaysWaiting ==
  { {Checkout([priceId |-> p, modelUrl |-> PLACEHOLDER, userId |-> Uid])} :
      p \in {PRICE_BASIC, PRICE_PRO} }

InitToken ==
  /\ build \in Builds
  /\ user \in {"null", Uid}
  /\ userPlan \in {"free", "pro"}
  /\ gen \in {IdleGen} \cup GenWaiting(build, user, userPlan)
  /\ isLoading = (gen.pc # "idle")
  /\ modelUrl \in {NoUrl, PLACEHOLDER}
  /\ error \in {"", MsgSignedOut}
  /\ pays \in {{}} \cup PaysWaiting
  /\ showStripeModal \in {FALSE, pays # {}}
  /\ showSignIn = FALSE
  /\ look \in {NoLook, [tok |-> 1, get |-> 0]}
  /\ last = NoLast
  /\ args = NoArgs
  /\ srv = IdleSrv

NextToken ==
  \/ TokenResponse
  \/ PayTokenResponse
  \/ PlanTokenResponse

SpecToken == InitToken /\ [][NextToken]_vars

(***************************************************************************)
(* generateModel called with a filled form as a preview or, in             *)
(* src/index.js, as a download, in every state of InitPay, and followed to *)
(* the end of the payForModel call that a download goes on to.             *)
(***************************************************************************)
DownloadFlags(b) == IF b = "index" THEN BOOLEAN ELSE {FALSE}

DirectGenerate ==
  /\ last.op = "none"
  /\ \E f \in FilledForms(build), dl \in DownloadFlags(build) :
       LET a == [f EXCEPT !.download = dl] IN
       /\ args' = a
       /\ Invoke("direct", Checked(build, a))
  /\ UNCHANGED <<srv, build, session>>

NextDownload ==
  \/ DirectGenerate
  \/ TokenResponse
  \/ PostResponse
  \/ PayTokenResponse
  \/ CheckoutResponse

SpecDownload == InitPay /\ [][NextDownload]_vars

(***************************************************************************)
(* The backend alone: requests to its two POST routes with any body, and   *)
(* any answer of the service behind each.                                  *)
(***************************************************************************)
InitServer == Init /\ build = "index"

NextServer ==
  \/ GenerateRequest
  \/ SloydResponse
  \/ CheckoutSessionRequest
  \/ StripeResponse

SpecServer == InitServer /\ [][NextServer]_vars

(***************************************************************************)
(* Properties.                                                             *)
(***************************************************************************)
\* vocabulary of the properties, stated without the operators of the code
Blank(p)        == \A i \in 1..Len(p) : p[i] \in WhiteSpace
ImagePresent(v) == v.k \in {"str", "obj"} /\ v.s # ""
PositiveText    == {"0.2", "0.4", "10", "20", "50", "100", "150"}
PositiveFinite(v) ==
  \/ v.k = "num" /\ v.n > 0
  \/ v.k = "str" /\ v.s \in PositiveText
\* a number below lo or above hi (tenths), written as a number or as text
BelowText(lo) == {t \in {"-5", "0", "0.2", "0.4", "10", "150"} :
                    StringToNumber(t).n < lo}
AboveText(hi) == {t \in {"-5", "0", "0.2", "0.4", "10", "150"} :
                    StringToNumber(t).n > hi}
NumberBelow(v, lo) ==
  \/ v.k = "num" /\ v.n < lo
  \/ v.k = "str" /\ v.s \in BelowText(lo)
NumberAbove(v, hi) ==
  \/ v.k = "num" /\ v.n > hi
  \/ v.k = "str" /\ v.s \in AboveText(hi)

InputGiven(a) == a.promptDef /\ ~(Blank(a.prompt) /\ ~ImagePresent(a.image))
DimensionsGood(a) ==
  PositiveFinite(a.width) /\ PositiveFinite(a.height) /\ PositiveFinite(a.depth)
InfillGood(a) == ~NumberBelow(a.infill, 0) /\ ~NumberAbove(a.infill, 1000)

PayloadValid(p) ==
  /\ p.width.k = "num" /\ p.width.n > 0
  /\ p.height.k = "num" /\ p.height.n > 0
  /\ p.depth.k = "num" /\ p.depth.n > 0
  /\ p.infill.k = "num" /\ p.infill.n >= 0 /\ p.infill.n <= 1000
  /\ p.shellThickness.k = "num" /\ p.shellThickness.n >= 4
  /\ ~(p.prompt = <<>> /\ ~ImagePresent(p.image))

\* C1: every generation request that is dispatched to the backend carries
\* positive finite dimensions, an infill in [0,100], a shell thickness of at
\* least 0.4 and a prompt or an image.
C1_DispatchedRequestValid ==
  gen.pc = "post" => PayloadValid(gen.payload)

\* C2: a call whose prompt is empty after trimming and that has no image
\* ends with the missing-input error; a call whose prompt is empty but that
\* has an image does not.
C2_MissingInput ==
  (last.op = "direct" /\ args.promptDef /\ Blank(args.prompt)) =>
    IF ImagePresent(args.image)
    THEN last.verdict # "MissingInput" /\ error # MsgMissingInput
    ELSE last.verdict = "MissingInput" /\ error = MsgMissingInput /\ gen.pc = "idle"

C2_Witness ==
  /\ last.op = "direct" /\ args.promptDef /\ Blank(args.prompt)
  /\ args.prompt # <<>> /\ ~ImagePresent(args.image)
  /\ last.verdict = "MissingInput" /\ error = MsgMissingInput

\* C3: with a prompt or an image given, a call ends with the
\* invalid-dimension error exactly when width, height or depth is not a
\* positive finite number (absent, not a number, not finite, or <= 0).
C3_InvalidDimension ==
  (last.op = "direct" /\ InputGiven(args)) =>
    IF DimensionsGood(args)
    THEN last.verdict # "InvalidDimension" /\ error # MsgInvalidDimension
    ELSE last.verdict = "InvalidDimension" /\ error = MsgInvalidDimension
         /\ gen.pc = "idle"

C3_Witness ==
  /\ last.op = "direct" /\ InputGiven(args)
  /\ PositiveFinite(args.width) /\ PositiveFinite(args.height)
  /\ args.depth = Str("0")
  /\ last.verdict = "InvalidDimension" /\ error = MsgInvalidDimension

\* C4: with the earlier rules satisfied, a call whose infill is a number
\* below 0 or above 100 ends with the invalid-infill error and dispatches
\* no request.
C4_InvalidInfill ==
  (last.op = "direct" /\ InputGiven(args) /\ DimensionsGood(args)
     /\ ~InfillGood(args)) =>
    last.verdict = "InvalidInfill" /\ error = MsgInvalidInfill
    /\ gen.pc = "idle" /\ ~isLoading

C4_Witness ==
  /\ last.op = "direct" /\ InputGiven(args) /\ DimensionsGood(args)
  /\ args.infill = Num(1001)
  /\ last.verdict = "InvalidInfill" /\ error = MsgInvalidInfill /\ gen.pc = "idle"

\* C5: with the earlier rules satisfied, a call whose shell thickness is a
\* number below 0.4 ends with the invalid-shell-thickness error and
\* dispatches no request.
C5_InvalidShellThickness ==
  (last.op = "direct" /\ InputGiven(args) /\ DimensionsGood(args)
     /\ InfillGood(args) /\ NumberBelow(args.shellThickness, 4)) =>
    last.verdict = "InvalidShellThickness" /\ gen.pc = "idle" /\ ~isLoading

\* C6: a call of generateModel that fails validation sends no request and
\* leaves the result slot and the loading flag as they were; it sets the
\* error message of the failed rule.
C6_ValidationFailureFrame ==
  last.verdict \in ValidationFailures =>
    last.kept /\ last.msg = ValidationMessage(build, last.verdict)

C6_Witness ==
  /\ last.op = "generate" /\ last.verdict \in ValidationFailures
  /\ modelUrl # NoUrl /\ last.kept /\ error = last.msg

\* C7: when the generation request fails in transport, the network error is
\* reported, the result is the placeholder, and the request is not sent
\* again: the call has ended, having sent one request.
C7_TransportFailure ==
  /\ gen.posts <= 1
  /\ (last.op = "response" /\ last.resp.kind = "throw") =>
       /\ error = MsgNetwork /\ modelUrl = PLACEHOLDER
       /\ gen.pc = "idle" /\ ~isLoading

C7_Witness ==
  /\ last.op = "response" /\ last.resp.kind = "throw"
  /\ error = MsgNetwork /\ modelUrl = PLACEHOLDER /\ gen.pc = "idle"

\* C8: after an answer with a non-success status the result is the
\* placeholder, written by the fallback, with the generic failure message.
C8_BackendError ==
  (last.op = "response" /\ last.resp.kind = "http" /\ ~last.resp.ok) =>
    /\ modelUrl = PLACEHOLDER /\ last.outcome = "backend"
    /\ error = MsgBackend /\ ~isLoading

C8_Witness ==
  /\ last.op = "response" /\ last.resp.kind = "http" /\ ~last.resp.ok
  /\ last.resp.json = "object" /\ Truthy(last.resp.error)
  /\ modelUrl = PLACEHOLDER /\ error = MsgBackend

C10_Original ==
  (last.op = "response" /\ last.resp.kind = "http" /\ last.resp.ok
     /\ last.resp.json = "object" /\ last.resp.modelUrl # Undef) =>
    /\ modelUrl = last.resp.modelUrl.s /\ last.outcome = "success"
    /\ last.msg = ""

\* C10 amended: after a success answer whose body carries a non-empty
\* modelUrl and no non-empty error field the result is exactly that URL,
\* written by the success branch, and the call reports no error.
C10_Success ==
  (last.op = "response" /\ last.resp.kind = "http" /\ last.resp.ok
     /\ last.resp.json = "object" /\ Truthy(last.resp.modelUrl)
     /\ ~Truthy(last.resp.error)) =>
    /\ modelUrl = last.resp.modelUrl.s /\ last.outcome = "success"
    /\ last.msg = ""

C10_Witness ==
  /\ last.op = "response" /\ last.resp.ok /\ Truthy(last.resp.modelUrl)
  /\ ~Truthy(last.resp.error)
  /\ modelUrl = "https://x/y.glb" /\ last.outcome = "success"

\* vocabulary of the payment properties
PayCalled  == {"directPay", "plans", "payDownload"}
OneTimeIds == {PRICE_ONETIME}
PlanIds    == {PRICE_BASIC, PRICE_PRO}
PricePresent(p) == p \notin {"null", ""}
CheckoutFailed(r) ==
  r.kind = "throw" \/ r.json # "object" \/ r.url \in {Undef, Str("")}

\* C11 as stated: a call of payForModel with a null price identifier, under
\* any plan tier, reports that the plan is included by default, sends no
\* checkout request and opens neither the sign-in nor the payment modal.
C11_Original ==
  [][(last'.op \in PayCalled /\ last'.price = "null") =>
       /\ last'.verdict = "NoAction" /\ error' = MsgNoAction
       /\ pays' = pays
       /\ showSignIn' = showSignIn /\ showStripeModal' = showStripeModal]_vars

\* C11 amended: the same, in src/index.js under every plan tier and in
\* src/unnamed/part_000 under every plan tier but pro.
C11_NoAction ==
  [][(last'.op \in PayCalled /\ last'.price = "null"
        /\ (build = "index" \/ userPlan # "pro")) =>
       /\ last'.verdict = "NoAction" /\ error' = MsgNoAction
       /\ pays' = pays
       /\ showSignIn' = showSignIn /\ showStripeModal' = showStripeModal]_vars

C11_Witness ==
  /\ last.op = "plans" /\ last.price = "null" /\ last.verdict = "NoAction"
  /\ build = "index" /\ userPlan = "pro" /\ user # "null" /\ modelUrl # NoUrl
  /\ error = MsgNoAction /\ pays = {} /\ ~showStripeModal

\* C12: a call of payForModel with a price identifier is blocked with
\* "generate a model first" exactly when the identifier is the one-time
\* purchase identifier and the result slot is empty; the identifiers of the
\* Basic and Pro plans are never blocked that way.
C12_NeedsModel ==
  (last.op \in PayCalled /\ PricePresent(last.price)) =>
    /\ (last.verdict = "NeedsModel") <=>
         (last.price \in OneTimeIds /\ modelUrl = NoUrl)
    /\ last.price \in PlanIds => error # MsgNeedsModel

\* C13: a call of payForModel with a price identifier, a result present and
\* nobody signed in reports "sign in required", opens the sign-in modal,
\* sends no checkout request and does not open the payment modal.
C13_NeedsSignIn ==
  [][(last'.op \in PayCalled /\ PricePresent(last'.price)
        /\ modelUrl # NoUrl /\ user = "null") =>
       /\ last'.verdict = "NeedsSignIn" /\ error' = MsgNeedsSignIn
       /\ showSignIn'
       /\ pays' = pays /\ showStripeModal' = showStripeModal]_vars

C13_Witness ==
  /\ last.op \in PayCalled /\ last.price = PRICE_ONETIME
  /\ modelUrl # NoUrl /\ user = "null"
  /\ last.verdict = "NeedsSignIn" /\ error = MsgNeedsSignIn
  /\ showSignIn /\ ~showStripeModal /\ pays = {}

\* C14: a call of payForModel with a price identifier by a signed-in user,
\* with a result present if the identifier is the one-time one, goes on to
\* one checkout request that carries the identifier, the user's id, and the
\* result URL for a one-time purchase or the sentinel for a subscription.
C14_CheckoutDispatch ==
  /\ \A c \in pays : c.posts <= 1
  /\ (last.op \in PayCalled /\ PricePresent(last.price) /\ user # "null"
        /\ (last.price \in OneTimeIds => modelUrl # NoUrl)) =>
       /\ last.verdict = "proceed"
       /\ \E c \in pays :
            c.body = [ priceId  |-> last.price,
                       modelUrl |-> IF last.price \in OneTimeIds THEN modelUrl
                                    ELSE SENTINEL,
                       userId   |-> user ]

\* C15: after a checkout request that failed (the fetch threw, or the answer
\* carries no redirect URL) an error message is shown, the payment modal is
\* closed, and the request is not sent again.
C15_CheckoutFailure ==
  /\ \A c \in pays : c.posts <= 1
  /\ (last.op = "checkoutResponse" /\ CheckoutFailed(last.resp)) =>
       /\ error \in {MsgCheckoutFail, MsgCheckoutError} /\ error = last.msg
       /\ ~showStripeModal
       /\ \A c \in pays : c.pc = "post" => c.posts = 1

C15_Witness ==
  /\ last.op = "checkoutResponse" /\ last.resp.kind = "http"
  /\ last.resp.json = "object" /\ last.resp.url = Undef
  /\ error = MsgCheckoutFail /\ ~showStripeModal /\ pays = {}

\* C16: whenever nobody is signed in the plan tier is free.
C16_SignedOutIsFree ==
  user = "null" => userPlan = "free"

\* C17: after a plan lookup that failed (the fetch threw, the body does not
\* parse or has no plan field, or the status is not a success) the plan tier
\* is free.
C17_LookupFailureIsFree ==
  (last.op = "planResponse"
     /\ (last.resp.kind = "throw" \/ last.resp.json # "object"
           \/ last.resp.plan = Undef \/ ~last.resp.ok)) =>
    userPlan = "free"

\* C18: when the token fetch fails, getCsrfToken yields the empty token and
\* the request that waited for it is sent with that token; the step writes
\* neither an error message nor a result.
C18_EmptyTokenProceeds ==
  [][last'.outcome = "tokenFailed" =>
       /\ last'.token = ""
       /\ error' = error /\ modelUrl' = modelUrl
       /\ CASE last'.sent = "generate" ->
                 gen'.pc = "post" /\ gen'.token = "" /\ gen'.posts = 1
            [] last'.sent = "checkout" ->
                 \E c \in pays' \ pays :
                   c.pc = "post" /\ c.token = "" /\ c.posts = 1
            [] last'.sent = "plan" ->
                 look'.get = look.get + 1 /\ look'.tok = look.tok - 1
            [] OTHER -> FALSE]_vars

C18_Witness ==
  /\ last.op = "planToken" /\ last.outcome = "tokenFailed" /\ last.token = ""
  /\ look.get = 1
  /\ gen.pc = "post" /\ gen.token = ""
  /\ \E c \in pays : c.pc = "post" /\ c.token = ""
  /\ error = "" /\ modelUrl = NoUrl

\* C19: a generation request of src/index.js carries the format stl when the
\* call asked for a download and glb otherwise, and a click on the download
\* button starts a call that goes on to a request with the format stl.
C19_DownloadFormat ==
  /\ (build = "index" /\ gen.pc \in {"token", "post"}) =>
       gen.payload.format = IF gen.download THEN "stl" ELSE "glb"
  /\ last.op = "download" =>
       gen.pc = "token" /\ gen.download /\ gen.payload.format = "stl"

\* C20: no call of generateModel that the buttons make ends in an exception
\* that nothing catches.
C20_NoUnhandledException ==
  last.op \in {"generate", "download", "gallery"} => last.verdict # "TypeError"

(***************************************************************************)
(* Concurrency and ordering (C21..C25).                                    *)
(***************************************************************************)
GenerateTriggers == {"generate", "download", "gallery"}
InFlight == {"token", "post", "pay"}

\* C21: at most one generation request is in flight: while one is, isLoading
\* is true, and a call of generateModel by a button goes on to a request only
\* when no request is in flight.
C21_OneGenerationInFlight ==
  [][/\ gen'.pc \in InFlight => isLoading'
     /\ (last'.op \in GenerateTriggers /\ last'.verdict = "ok") =>
          gen.pc = "idle" /\ ~isLoading /\ gen'.pc = "token"
     /\ (last'.op \in GenerateTriggers /\ gen.pc \in InFlight) =>
          gen' = gen /\ isLoading']_vars

C21_Witness ==
  /\ build = "index" /\ last.op = "gallery"
  /\ last.verdict = "InvalidDimension"
  /\ gen.pc = "post" /\ isLoading

ExampleUrls == {m.url : m \in EXAMPLE_MODELS(build)}

\* C22 as stated: the result slot changes only in the step in which the
\* request in flight completes or falls back.
C22_Original ==
  [][modelUrl' # modelUrl => last'.op = "response"]_vars

\* C22: the result slot is written only by generateModel and by the gallery:
\* a call that goes on to a request clears it, the completion or fallback of
\* the one request in flight sets it, and "Try This Model" sets it to the
\* example's URL.
C22_ResultSlotWriters ==
  [][modelUrl' # modelUrl =>
       \/ last'.op = "gallery" /\ modelUrl' \in ExampleUrls
       \/ /\ last'.op \in GenerateTriggers /\ last'.verdict = "ok"
          /\ gen.pc = "idle" /\ modelUrl' = NoUrl
       \/ /\ last'.op = "response" /\ gen.pc = "post"
          /\ modelUrl' \in {PLACEHOLDER, "https://x/y.glb"}]_vars

C22_Witness ==
  /\ last.op = "gallery" /\ modelUrl = ROBOT
  /\ gen.pc = "post" /\ isLoading

\* C23: while a generation request is in flight, a click on another control
\* changes none of the shared state (result slot, error message, loading
\* flag).
C23_RunToCompletion ==
  [][(gen.pc \in InFlight /\ last'.op \in GenerateTriggers) =>
       modelUrl' = modelUrl /\ error' = error /\ isLoading' = isLoading]_vars

\* C24: the browser is sent to the checkout page only while the checkout is
\* pending, that is while the payment modal is open; after the modal has been
\* closed no answer of an earlier checkout request navigates away.
C24_RedirectOnlyFromPending ==
  [][(last'.op = "checkoutResponse" /\ last'.outcome = "redirected") =>
       showStripeModal]_vars

\* C25: every generation that is dispatched completes: from any state in
\* which a request is in flight or the loading flag is set, a state follows
\* in which no request is in flight and the loading flag is clear, so that
\* the Generate button is enabled again.
C25_GenerationCompletes ==
  (gen.pc \in InFlight \/ isLoading) ~> (gen.pc = "idle" /\ ~isLoading)

C25_Witness ==
  /\ last.op = "response" /\ last.outcome = "errorField"
  /\ gen.pc = "idle" /\ ~isLoading /\ ENABLED HandleGenerate

(***************************************************************************)
(* The order of the validation rules (C27).                                *)
(***************************************************************************)
ShellBelow(a) == NumberBelow(a.shellThickness, 4)
RulesViolated(a) ==
  (IF InputGiven(a) THEN {} ELSE {"MissingInput"})
    \cup (IF DimensionsGood(a) THEN {} ELSE {"InvalidDimension"})
    \cup (IF InfillGood(a) THEN {} ELSE {"InvalidInfill"})
    \cup (IF ShellBelow(a) THEN {"InvalidShellThickness"} ELSE {})

\* C27: the rules are applied in the order missing input, dimensions,
\* infill, shell thickness, and a call that violates several of them reports
\* exactly one failure, the first rule violated.
C27_FirstViolatedRule ==
  (last.op = "direct" /\ args.promptDef) =>
    /\ ~InputGiven(args) =>
         last.verdict = "MissingInput" /\ error = MsgMissingInput
    /\ (InputGiven(args) /\ ~DimensionsGood(args)) =>
         last.verdict = "InvalidDimension" /\ error = MsgInvalidDimension
    /\ (InputGiven(args) /\ DimensionsGood(args) /\ ~InfillGood(args)) =>
         last.verdict = "InvalidInfill" /\ error = MsgInvalidInfill
    /\ last.verdict = "InvalidShellThickness" =>
         /\ InputGiven(args) /\ DimensionsGood(args) /\ InfillGood(args)
         /\ error \in {MsgShellIndex, MsgShellPart}
    /\ last.verdict # "ok" => gen.pc = "idle" /\ ~isLoading

C27_Witness ==
  /\ last.op = "direct" /\ args.promptDef
  /\ RulesViolated(args) = {"InvalidDimension", "InvalidInfill",
                            "InvalidShellThickness"}
  /\ last.verdict = "InvalidDimension" /\ error = MsgInvalidDimension

(***************************************************************************)
(* The placeholder and the payment gate (C28).                             *)
(***************************************************************************)
\* the state a generation that failed in transport leaves behind
PlaceholderShown == modelUrl = PLACEHOLDER /\ error = MsgNetwork

\* C28: while the result shown is the placeholder of a failed generation, a
\* call of payForModel for a one-time purchase sends no checkout request.
C28_PlaceholderIsNoModel ==
  [][(PlaceholderShown /\ last'.op \in PayCalled /\ last'.price \in OneTimeIds) =>
       last'.verdict # "proceed" /\ pays' = pays]_vars

(***************************************************************************)
(* The purchase that follows a download (C26).                             *)
(***************************************************************************)
\* the step in which the backend answered started a call of payForModel for
\* the one-time purchase
PurchaseStarted == last.price = PRICE_ONETIME /\ last.verdict # "none"

PromptAbsent(req) == req.prompt \in {Undef, Null, Str("")}
UpstreamSuccess(a) ==
  /\ a.kind = "http" /\ a.ok /\ a.json = "object"
  /\ a.modelUrl.k = "str" /\ a.modelUrl.s # ""

\* C29: POST /generate sends exactly one response per request: 400 without a
\* call of the AI service when the prompt is missing or empty; otherwise it
\* calls the AI service once and answers 200 with the model URL if the
\* service answered with a success status and a model URL, and 500 with an
\* error in every other case.
C29_GenerateRoute ==
  srv.route = "generate" =>
    /\ srv.pc = "sloyd" => srv.sent = 0 /\ srv.calls = 1
    /\ srv.pc = "done" =>
         /\ srv.sent = 1
         /\ IF PromptAbsent(srv.req)
            THEN srv.res.status = 400 /\ srv.calls = 0 /\ srv.res.body.error # ""
            ELSE /\ srv.calls = 1 /\ srv.call.service = "sloyd"
                 /\ srv.call.prompt = srv.req.prompt
                 /\ IF UpstreamSuccess(srv.ans)
                    THEN /\ srv.res.status = 200
                         /\ srv.res.body.modelUrl = srv.ans.modelUrl
                         /\ srv.res.body.error = ""
                    ELSE /\ srv.res.status = 500
                         /\ srv.res.body.error # ""
                         /\ srv.res.body.modelUrl = Undef

C29_Witness ==
  /\ srv.route = "generate" /\ srv.pc = "done"
  /\ srv.req.prompt = Str("a gear") /\ srv.calls = 1
  /\ ~srv.ans.ok /\ srv.ans.json = "object"
  /\ srv.ans.modelUrl = Str("https://x/y.stl")
  /\ srv.res.status = 500 /\ srv.sent = 1

\* C30: the session that POST /create-checkout-session creates is in
\* subscription mode for the price identifiers of the Basic and Pro plans,
\* and in payment mode for the one-time identifier.
C30_SessionMode ==
  (srv.route = "checkout" /\ srv.calls = 1) =>
    /\ srv.req.priceId.s \in PlanIds => srv.call.mode = "subscription"
    /\ srv.req.priceId.s \in OneTimeIds => srv.call.mode = "payment"

====
